---- MODULE Spec2Model ----
(***************************************************************************)
(* Model of the hotlabel task-serving core:                                *)
(*   - api/middleware/rate_limiting.py  (RateLimitMiddleware)              *)
(*   - api/services/task_management.py  (get_next_task, submit_task_result)*)
(*   - api/services/quality_assurance.py (validate_label_quality)          *)
(*   - api/services/user_profiling.py   (initialize_user_session)          *)
(* The shared store is Redis: sorted sets for the rate windows, plain keys *)
(* with expiry for everything else.  Every await on the store is one step. *)
(***************************************************************************)
EXTENDS Integers, Sequences, FiniteSets, TLC

(***************************************************************************)
(* Bounds of the model.                                                    *)
(***************************************************************************)
\* last second the rate-limit clock reaches
MaxClock == 5
\* number of requests the rate-limit scenario dispatches
MaxCalls == 5
\* limit L of every rate-limit class (settings.RATE_LIMIT_*: configuration)
Limit == 2
\* window W, in seconds, of every rate-limit class (configuration)
Window == 3
\* number of requests the key-derivation scenario dispatches
MaxKeyCalls == 2
\* number of requests the store-failure scenario dispatches
MaxFailCalls == 3
\* number of service calls of the task scenario, and the number of times
\* its clock jumps
MaxOps == 4
MaxAdvances == 1
\* number of requests the scenario of middleware and services dispatches
MaxGateCalls == 3
\* last second of that scenario
MaxGateClock == 2

(***************************************************************************)
(* Requests seen by the middleware.                                        *)
(***************************************************************************)
RProcs == {"r1", "r2"}

NoHeader == "<none>"

\* request.url.path, as the sequence of its segments
NextPath == <<"v1", "tasks", "next">>
SubmitPath(t) == <<"v1", "tasks", t, "submit">>
BatchPath == <<"v1", "tasks", "batch">>
SessionsPath == <<"v1", "users", "sessions">>
OtherPath == <<"v1", "publishers">>
HealthPath == <<"health">>
DocsPath == <<"docs">>

\* the requests of the rate-limit scenario: one caller, one submit path
RateHeaders == {"pubA"}
RatePaths == {SubmitPath("t1")}

\* the requests of the key-derivation scenario
KeyHeaders == {"pubA", "pubB", NoHeader}
KeyPaths == {NextPath, SubmitPath("t1"), SubmitPath("t2"), BatchPath,
             SessionsPath, OtherPath, HealthPath}

VARIABLES
    clock,       \* time.time(), integer seconds; also the store's clock
    redis_pool,  \* the middleware module's binding of redis_pool
    storeUp,     \* whether the store answers
    rl,          \* rate-limit sorted sets: key -> [members, exp]
    rpc,         \* position of each request inside dispatch
    req,         \* locals of each request
    ncalls,      \* requests dispatched so far
    history      \* completed rate-limit checks, in completion order

VARIABLES
    kv,          \* plain keys of the store: key -> [val, exp]
    tpc,         \* position of each service call
    treq,        \* locals of each service call
    nsess,       \* session ids generated so far (uuid4)
    ntasks,      \* task ids generated so far (uuid4)
    nvals,       \* validation ids generated so far (uuid4)
    nops,        \* service calls started so far
    nadv,        \* clock jumps so far
    issued,      \* session ids returned by initialize_user_session
    handed,      \* tasks returned by get_next_task, in order
    incs,        \* INCRs done on each session's completion counter
    submitted    \* submissions that ran to their end, in completion order

rateVars == <<redis_pool, storeUp, rl, rpc, req, ncalls, history>>

taskVars == <<kv, tpc, treq, nsess, ntasks, nvals, nops, nadv,
              issued, handed, incs, submitted>>

vars == <<clock, rateVars, taskVars>>

NoPool == "None"
Pool == "ConnectionPool"
\* the expiry of a key is the set holding its deadline, empty for a key
\* that never expires
NoTTL == {}

(***************************************************************************)
(* RateLimitMiddleware._get_rate_limit_for_path                            *)
(***************************************************************************)
StartsWith(path, prefix) ==
    /\ Len(path) >= Len(prefix)
    /\ \A i \in 1..Len(prefix) : path[i] = prefix[i]

\* re.match(r"^/v1/tasks/.+/submit", path): ".+" spans one or more
\* characters, slashes included
MatchesSubmit(path) ==
    /\ StartsWith(path, <<"v1", "tasks">>)
    /\ \E i \in 4..Len(path) : path[i] = "submit"

RateLimitClass(path) ==
    IF StartsWith(path, <<"v1", "tasks", "next">>) THEN "tasks"
    ELSE IF MatchesSubmit(path) THEN "tasks"
    ELSE IF StartsWith(path, <<"v1", "tasks", "batch">>) THEN "tasks_batch"
    ELSE IF StartsWith(path, <<"v1", "users", "sessions">>) THEN "users_sessions"
    ELSE "default"

\* the (limit, window) pair of a class; the settings strings are
\* configuration, every class gets the pair (Limit, Window)
RateLimitForPath(path) ==
    [class |-> RateLimitClass(path), limit |-> Limit, window |-> Window]

\* dispatch, line 17
SkipPath(path) ==
    \/ StartsWith(path, <<"docs">>)
    \/ StartsWith(path, <<"redoc">>)
    \/ path = <<"health">>

\* dispatch, lines 24-26
PublisherId(hdr) == IF hdr = NoHeader THEN "anonymous" ELSE hdr

\* dispatch, line 29: f"rate_limit:{publisher_id}:{request.url.path}"
RateLimitKey(hdr, path) == <<"rate_limit", PublisherId(hdr), path>>

(***************************************************************************)
(* The sorted set behind one key.  A member is str(current) with score     *)
(* current, so a member is identified by its timestamp.                    *)
(***************************************************************************)
Members(store, key) == IF key \in DOMAIN store THEN store[key].members ELSE {}

\* ZREMRANGEBYSCORE key 0 max: drops the members with 0 <= score <= max
RemRangeMut(set, max) == {m \in set : ~(0 <= m /\ m < max)}
RemRange(set, max) == {m \in set : ~(0 <= m /\ m <= max)}

\* a store without the key, or with the key bound to val
Without(store, key) == [k \in DOMAIN store \ {key} |-> store[k]]
With(store, key, val) == [k \in DOMAIN store \cup {key} |->
                            IF k = key THEN val ELSE store[k]]

\* keys that have not reached their expiry at time t
Unexpired(store, t) ==
    [k \in {x \in DOMAIN store : \A e \in store[x].exp : e > t}
        |-> store[k]]

IdleReq == [hdr |-> NoHeader, path |-> <<>>, key |-> <<>>, class |-> "",
            limit |-> 0, window |-> 0, current |-> 0, idx |-> 0,
            snap |-> {}, count |-> 0, final |-> {}, ttl |-> NoTTL,
            down |-> FALSE, outcome |-> "none", remaining |-> 0,
            reset_time |-> 0]

\* the pipeline of request q has started and not finished
InTxn(q) == rpc[q] = "execute" /\ req[q].idx > 1

\* pipeline = redis.pipeline(): transaction=True is the default, the queued
\* commands run under MULTI/EXEC and no other client's command runs between
IsolatedMut(p) == TRUE
Isolated(p) == \A q \in RProcs \ {p} : ~InTxn(q)

\* _check_rate_limit, lines 128-130
IsRateLimited(count, limit) == count >= limit
Remaining(count, limit) == IF limit - count - 1 > 0 THEN limit - count - 1 ELSE 0
ResetTime(current, window) ==
    IF window > 60 THEN window - (current % window) ELSE window

HistEntry(r, outcome, stored) ==
    [key |-> r.key, hdr |-> r.hdr, class |-> r.class, now |-> r.current,
     limit |-> r.limit, window |-> r.window, count |-> r.count,
     outcome |-> outcome, stored |-> stored]

(***************************************************************************)
(* dispatch: lines 15-34 up to the await of pipeline.execute()             *)
(***************************************************************************)
Dispatch(p, hdr, path) ==
    /\ rpc[p] = "idle"
    /\ ncalls' = ncalls + 1
    /\ UNCHANGED <<clock, redis_pool, storeUp, rl, taskVars>>
    /\ LET cfg == RateLimitForPath(path)
           r == [IdleReq EXCEPT !.hdr = hdr, !.path = path,
                                !.key = RateLimitKey(hdr, path),
                                !.class = cfg.class,
                                !.limit = cfg.limit, !.window = cfg.window,
                                !.current = clock]
       IN IF SkipPath(path)
          THEN \* line 18: call_next without any check
               /\ rpc' = [rpc EXCEPT ![p] = "done"]
               /\ req' = [req EXCEPT ![p] = [IdleReq EXCEPT !.hdr = hdr,
                                   !.path = path, !.outcome = "passed"]]
               /\ UNCHANGED history
          ELSE IF redis_pool = NoPool
          THEN \* lines 101-103: return False, limit, window
               /\ rpc' = [rpc EXCEPT ![p] = "done"]
               /\ req' = [req EXCEPT ![p] = [r EXCEPT !.outcome = "passed",
                                   !.remaining = cfg.limit,
                                   !.reset_time = cfg.window]]
               /\ history' = Append(history, HistEntry(r, "passed", FALSE))
          ELSE \* lines 105-121: current is read, the commands are queued
               /\ rpc' = [rpc EXCEPT ![p] = "execute"]
               /\ req' = [req EXCEPT ![p] = [r EXCEPT !.idx = 1]]
               /\ UNCHANGED history

(***************************************************************************)
(* pipeline.execute(), line 124, command by command                        *)
(***************************************************************************)
\* line 115: pipeline.zremrangebyscore(key, 0, window_start)
ZRemRangeByScore(p) ==
    /\ rpc[p] = "execute" /\ req[p].idx = 1
    /\ storeUp
    /\ Isolated(p)
    /\ LET r == req[p]
           old == Members(rl, r.key)
           kept == RemRange(old, r.current - r.window)
       IN /\ rl' = IF r.key \notin DOMAIN rl THEN rl
                   ELSE IF kept = {} THEN Without(rl, r.key)
                   ELSE With(rl, r.key, [rl[r.key] EXCEPT !.members = kept])
          /\ req' = [req EXCEPT ![p] = [r EXCEPT !.idx = 2, !.snap = old]]
    /\ UNCHANGED <<clock, redis_pool, storeUp, rpc, ncalls, history, taskVars>>

\* line 117: pipeline.zcard(key)
ZCard(p) ==
    /\ rpc[p] = "execute" /\ req[p].idx = 2
    /\ storeUp
    /\ Isolated(p)
    /\ req' = [req EXCEPT ![p] = [req[p] EXCEPT !.idx = 3,
                      !.count = Cardinality(Members(rl, req[p].key))]]
    /\ UNCHANGED <<clock, redis_pool, storeUp, rl, rpc, ncalls, history, taskVars>>

\* line 119: pipeline.zadd(key, {str(current): current})
ZAdd(p) ==
    /\ rpc[p] = "execute" /\ req[p].idx = 3
    /\ storeUp
    /\ Isolated(p)
    /\ LET r == req[p]
       IN rl' = IF r.key \in DOMAIN rl
                THEN With(rl, r.key, [rl[r.key] EXCEPT
                                  !.members = @ \cup {r.current}])
                ELSE With(rl, r.key, [members |-> {r.current}, exp |-> NoTTL])
    /\ req' = [req EXCEPT ![p] = [req[p] EXCEPT !.idx = 4]]
    /\ UNCHANGED <<clock, redis_pool, storeUp, rpc, ncalls, history, taskVars>>

\* line 121: pipeline.expire(key, window); then lines 125-132 and the rest
\* of dispatch, lines 36-60
Expire(p) ==
    /\ rpc[p] = "execute" /\ req[p].idx = 4
    /\ storeUp
    /\ Isolated(p)
    /\ LET r == req[p]
           store == IF r.key \in DOMAIN rl
                    THEN With(rl, r.key, [rl[r.key] EXCEPT
                                      !.exp = {clock + r.window}])
                    ELSE rl
           outcome == IF IsRateLimited(r.count, r.limit)
                      THEN "rejected" ELSE "passed"
       IN /\ rl' = store
          /\ req' = [req EXCEPT ![p] = [r EXCEPT !.idx = 5,
                        !.final = Members(store, r.key),
                        !.ttl = IF r.key \in DOMAIN store
                                THEN {e - clock : e \in store[r.key].exp}
                                ELSE NoTTL,
                        !.outcome = outcome,
                        !.remaining = Remaining(r.count, r.limit),
                        !.reset_time = ResetTime(r.current, r.window)]]
          /\ history' = Append(history, HistEntry(r, outcome, TRUE))
    /\ rpc' = [rpc EXCEPT ![p] = "done"]
    /\ UNCHANGED <<clock, redis_pool, storeUp, ncalls, taskVars>>

\* line 124 with the store unreachable: execute() raises, nothing in
\* _check_rate_limit or dispatch catches it
ExecuteFails(p) ==
    /\ rpc[p] = "execute" /\ req[p].idx = 1
    /\ ~storeUp
    /\ rpc' = [rpc EXCEPT ![p] = "done"]
    /\ req' = [req EXCEPT ![p] = [req[p] EXCEPT !.outcome = "error",
                                                !.down = TRUE]]
    /\ UNCHANGED <<clock, redis_pool, storeUp, rl, ncalls, history, taskVars>>

\* the response leaves the middleware
Respond(p) ==
    /\ rpc[p] = "done"
    /\ rpc' = [rpc EXCEPT ![p] = "idle"]
    /\ req' = [req EXCEPT ![p] = IdleReq]
    /\ UNCHANGED <<clock, redis_pool, storeUp, rl, ncalls, history, taskVars>>

(***************************************************************************)
(* Environment of the middleware                                           *)
(***************************************************************************)
\* one second passes; the store drops the keys whose TTL ran out
Tick ==
    /\ clock < MaxClock
    /\ \A q \in RProcs : ~InTxn(q)
    /\ clock' = clock + 1
    /\ rl' = Unexpired(rl, clock + 1)
    /\ kv' = Unexpired(kv, clock + 1)
    /\ UNCHANGED <<redis_pool, storeUp, rpc, req, ncalls, history>>
    /\ UNCHANGED <<tpc, treq, nsess, ntasks, nvals, nops, nadv, submitted,
                   issued, handed, incs>>

StoreFails ==
    /\ storeUp
    /\ \A q \in RProcs : ~InTxn(q)
    /\ storeUp' = FALSE
    /\ UNCHANGED <<clock, redis_pool, rl, rpc, req, ncalls, history, taskVars>>

StoreRecovers ==
    /\ ~storeUp
    /\ storeUp' = TRUE
    /\ UNCHANGED <<clock, redis_pool, rl, rpc, req, ncalls, history, taskVars>>

(***************************************************************************)
(* The services behind the middleware.  uuid4 values are fresh: session,   *)
(* task and validation ids are numbered in the order they are generated.   *)
(***************************************************************************)
TProcs == {"h1", "h2"}
Publishers == {"pubA"}
Responses == {"Blue", "Red"}
TimesSpent == {5000}
\* performance_metrics of a profile update: (accuracy in hundredths,
\* task_completions), or none
NoMetrics == <<>>
Metrics == {NoMetrics, <<85, 10>>, <<90, 50>>}
\* the lengths of the clock jumps of the task scenario, in seconds: the
\* assignment's hour and the session's day
Jumps == {3600, 86400}
\* time_spent_ms of the scoring scenario: both sides of the two thresholds
ScoreTimes == {499, 500, 30000, 30001}
\* count and complexity of the batch requests; no filter is None
BatchCounts == {1, 2}
NoComplexity == "None"
Complexities == {NoComplexity, "high"}
\* the clock steps of the batch scenario, in seconds
BatchJumps == {1}
\* a task id no get_next_task call generated
UnknownTask == 0
\* expected_answer of a task that is not golden set (None)
NoAnswer == "None"

\* ex= arguments of the redis.set calls
LeaseTTL == 300
TaskTTL == 3600
BatchTTL == 3600
DayTTL == 86400

(***************************************************************************)
(* Python floats.  A score is an IEEE 754 binary64 number, never negative   *)
(* here: zero, or 2^e times a 53-bit significand in [1, 2) held as five     *)
(* digits in base 2^13, most significant first (the first digit is 1).     *)
(***************************************************************************)
LimbBase == 8192
HalfLimb == 4096

Float(e, l4, l3, l2, l1, l0) == [e |-> e, m |-> <<l4, l3, l2, l1, l0>>]

\* 0.0; its exponent lies below that of every score
FloatZero == Float(-1075, 0, 0, 0, 0, 0)

\* the float literals of the services, as the parser rounds them
\* 0.2 = 0x1.999999999999ap-3
Float_0_2 == Float(-3, 1, 4915, 1638, 3276, 6554)
\* 0.3 = 0x1.3333333333333p-2
Float_0_3 == Float(-2, 1, 1638, 3276, 6553, 4915)
\* 0.5 = 0x1.0000000000000p-1
Float_0_5 == Float(-1, 1, 0, 0, 0, 0)
\* 0.7 = 0x1.6666666666666p-1
Float_0_7 == Float(-1, 1, 3276, 6553, 4915, 1638)
\* 0.8 = 0x1.999999999999ap-1
Float_0_8 == Float(-1, 1, 4915, 1638, 3276, 6554)
\* 0.9 = 0x1.ccccccccccccdp-1
Float_0_9 == Float(-1, 1, 6553, 4915, 1638, 3277)
\* 1.0 = 0x1.0000000000000p+0
Float_1_0 == Float(0, 1, 0, 0, 0, 0)

\* a < b on floats that are not negative
FloatLess(a, b) ==
    \/ a.e < b.e
    \/ /\ a.e = b.e
       /\ \E i \in 1..5 : /\ a.m[i] < b.m[i]
                          /\ \A j \in 1..(i - 1) : a.m[j] = b.m[j]

\* a >= b
FloatGeq(a, b) == ~FloatLess(a, b)

\* significand + 1, digit by digit from the least significant one; the
\* first digit is not reduced: it is 2 when the significand reaches 2
SigInc(m) ==
    LET carry[i \in 1..5] == IF i = 5 THEN 1
                             ELSE IF m[i + 1] + carry[i + 1] >= LimbBase
                                  THEN 1 ELSE 0
    IN [i \in 1..5 |-> IF i = 1 THEN m[1] + carry[1]
                       ELSE (m[i] + carry[i]) % LimbBase]

\* a * b, rounded to the nearest float, ties to even (the * of CPython
\* floats is the C double product)
FloatMul(a, b) ==
    IF a = FloatZero \/ b = FloatZero THEN FloatZero
    ELSE
    LET \* digit of weight LimbBase^i
        A(i) == a.m[5 - i]
        B(i) == b.m[5 - i]
        Term(i, k) == IF k - i \in 0..4 THEN A(i) * B(k - i) ELSE 0
        Col(k) == Term(0, k) + Term(1, k) + Term(2, k) + Term(3, k) + Term(4, k)
        carry[k \in 0..9] == IF k = 0 THEN 0
                             ELSE (Col(k - 1) + carry[k - 1]) \div LimbBase
        \* the 106-bit product of the significands
        P(k) == (Col(k) + carry[k]) % LimbBase
        \* P = Q * 2^52 + R
        Q == <<P(8), P(7), P(6), P(5), P(4)>>
        rZero == P(3) = 0 /\ P(2) = 0 /\ P(1) = 0 /\ P(0) = 0
        lowZero == P(2) = 0 /\ P(1) = 0 /\ P(0) = 0
        \* the product of two significands lies in [1, 4)
        wide == Q[1] >= 2
        \* Q shifted right by one bit
        half == [i \in 1..5 |-> (Q[i] \div 2) +
                                 (IF i > 1 THEN (Q[i - 1] % 2) * HalfLimb ELSE 0)]
        kept == IF wide THEN half ELSE Q
        \* the bits dropped, against one half of the last place kept
        above == IF wide THEN Q[5] % 2 = 1 /\ ~rZero
                 ELSE P(3) > HalfLimb \/ (P(3) = HalfLimb /\ ~lowZero)
        tie == IF wide THEN Q[5] % 2 = 1 /\ rZero
               ELSE P(3) = HalfLimb /\ lowZero
        up == above \/ (tie /\ kept[5] % 2 = 1)
        inc == SigInc(kept)
        e == a.e + b.e + (IF wide THEN 1 ELSE 0)
    IN IF ~up THEN [e |-> e, m |-> kept]
       ELSE IF inc[1] = 2
            THEN [e |-> e + 1, m |-> <<1, 0, 0, 0, 0>>]
            ELSE [e |-> e, m |-> inc]

\* the scores the validator starts from
ScoreNotFound == Float_0_2
ScoreDefault == Float_0_8
ScoreGoldenCorrect == Float_1_0
ScoreGoldenWrong == Float_0_3

ProfileKey(pub, sess) == <<"user:profile", pub, sess>>
CounterKey(sess) == <<"user:tasks_completed", sess>>
SessionKey(pub, sess) == <<"session", pub, sess>>
LeaseKey(tid) == <<"task:assigned", tid>>
TaskKey(tid) == <<"task", tid>>
ValidationKeyMut(vid) == <<"validation", 0>>
ValidationKey(vid) == <<"validation", vid>>
SubmissionKey(tid) == <<"submission", tid>>
BatchKey(batch_id) == <<"batch", batch_id>>

\* redis.set(key, val, ex=ttl)
SetMut(store, key, val, ttl) ==
    IF key \in DOMAIN store THEN store
    ELSE With(store, key, [val |-> val, exp |-> {clock + ttl}])
Set(store, key, val, ttl) == With(store, key, [val |-> val, exp |-> {clock + ttl}])

\* redis.incr(key): a missing key counts from 0 and gets no expiry, an
\* existing key keeps its expiry.  The counter is the decimal string of
\* the number kept here.
IncrMut(store, key) == With(store, key, [val |-> 1, exp |-> NoTTL])
Incr(store, key) ==
    IF key \in DOMAIN store
    THEN With(store, key, [store[key] EXCEPT !.val = @ + 1])
    ELSE With(store, key, [val |-> 1, exp |-> NoTTL])

\* the value of a session's counter as a set: empty when the key is missing
CounterValue(store, sess) ==
    IF CounterKey(sess) \in DOMAIN store THEN {store[CounterKey(sess)].val} ELSE {}

MinMut(a, b) == a
Min(a, b) == IF a < b THEN a ELSE b

\* get_next_task, line 78, left operand: user_expertise == "beginner"
IsBeginnerMut(expertise) == TRUE
IsBeginner(expertise) == expertise = "beginner"

\* get_next_task, line 78, right operand: redis.get(counter) == "0",
\* evaluated only when the left operand holds
CounterIsZeroMut(counter) == counter # {}
CounterIsZero(counter) == counter = {0}

\* initialize_user_session, lines 55-60
NewProfile == [language |-> "en", expertise_level |-> "beginner",
               task_preferences |-> <<"vqa", "text_classification">>,
               max_complexity |-> 2]

NoTaskData == [task_id |-> UnknownTask, task_type |-> "", golden_set |-> FALSE,
               expected_answer |-> NoAnswer, publisher_id |-> "",
               session_id |-> 0, complexity_level |-> 0, created_at |-> 0]

NoValidation == [validation_id |-> 0, quality_score |-> FloatZero,
                 validation_method |-> "", issues_detected |-> {},
                 confidence |-> ""]

NoResult == [kind |-> "none"]

\* submit_task_result, lines 148-153
NotFoundResponseMut ==
    [kind |-> "submission", success |-> TRUE,
     reward |-> [type |-> "content_access", duration_seconds |-> 1800],
     quality_score |-> FloatZero, next_task_available |-> TRUE]
NotFoundResponse ==
    [kind |-> "submission", success |-> FALSE,
     reward |-> [type |-> "none", duration_seconds |-> 0],
     quality_score |-> FloatZero, next_task_available |-> TRUE]

\* validate_label_quality, lines 59-66
TaskNotFoundValidationMut(vid) ==
    [validation_id |-> vid, quality_score |-> FloatZero,
     validation_method |-> "consensus", issues_detected |-> {},
     confidence |-> "medium"]
TaskNotFoundValidation(vid) ==
    [validation_id |-> vid, quality_score |-> ScoreNotFound,
     validation_method |-> "unknown", issues_detected |-> {"task_not_found"},
     confidence |-> "low"]

\* validate_label_quality, lines 73-98 and 116
ScoreLabelGoldenTimed(vid, validation_type, task_data, response, time_spent_ms) ==
    LET timed(score) ==
          IF time_spent_ms < 500 THEN FloatMul(score, Float_0_5)
          ELSE IF time_spent_ms > 30000 THEN FloatMul(score, Float_0_9)
          ELSE score
        scored ==
          IF validation_type = "golden_set" /\ task_data.golden_set
          THEN IF /\ task_data.expected_answer # NoAnswer
                  /\ response = task_data.expected_answer
               THEN [score |-> timed(ScoreGoldenCorrect), issues |-> {}]
               ELSE [score |-> timed(ScoreGoldenWrong),
                     issues |-> {"incorrect_golden_set_answer"}]
          ELSE [score |-> timed(ScoreDefault), issues |-> {}]
    IN [validation_id |-> vid, quality_score |-> scored.score,
        validation_method |-> validation_type,
        issues_detected |-> scored.issues,
        confidence |-> IF validation_type = "golden_set" THEN "high" ELSE "medium"]
ScoreLabelInclusive(vid, validation_type, task_data, response, time_spent_ms) ==
    LET scored ==
          IF validation_type = "golden_set" /\ task_data.golden_set
          THEN IF /\ task_data.expected_answer # NoAnswer
                  /\ response = task_data.expected_answer
               THEN [score |-> ScoreGoldenCorrect, issues |-> {}]
               ELSE [score |-> ScoreGoldenWrong,
                     issues |-> {"incorrect_golden_set_answer"}]
          ELSE IF time_spent_ms <= 500
               THEN [score |-> FloatMul(ScoreDefault, Float_0_5),
                     issues |-> {"suspiciously_fast_response"}]
               ELSE IF time_spent_ms >= 30000
               THEN [score |-> FloatMul(ScoreDefault, Float_0_9),
                     issues |-> {"slow_response"}]
               ELSE [score |-> ScoreDefault, issues |-> {}]
    IN [validation_id |-> vid, quality_score |-> scored.score,
        validation_method |-> validation_type,
        issues_detected |-> scored.issues,
        confidence |-> IF validation_type = "golden_set" THEN "high" ELSE "medium"]
ScoreLabel(vid, validation_type, task_data, response, time_spent_ms) ==
    LET scored ==
          IF validation_type = "golden_set" /\ task_data.golden_set
          THEN IF /\ task_data.expected_answer # NoAnswer
                  /\ response = task_data.expected_answer
               THEN [score |-> ScoreGoldenCorrect, issues |-> {}]
               ELSE [score |-> ScoreGoldenWrong,
                     issues |-> {"incorrect_golden_set_answer"}]
          ELSE IF validation_type = "consensus"
          THEN IF time_spent_ms < 500
               THEN [score |-> FloatMul(ScoreDefault, Float_0_5),
                     issues |-> {"suspiciously_fast_response"}]
               ELSE IF time_spent_ms > 30000
               THEN [score |-> FloatMul(ScoreDefault, Float_0_9),
                     issues |-> {"slow_response"}]
               ELSE [score |-> ScoreDefault, issues |-> {}]
          ELSE [score |-> ScoreDefault, issues |-> {}]
    IN [validation_id |-> vid, quality_score |-> scored.score,
        validation_method |-> validation_type,
        issues_detected |-> scored.issues,
        confidence |-> IF validation_type = "golden_set" THEN "high" ELSE "medium"]

\* submit_task_result, lines 171-179
RewardDurationMut(score) ==
    IF FloatLess(Float_0_9, score) THEN 7200
    ELSE IF FloatLess(Float_0_8, score) THEN 5400
    ELSE IF FloatLess(Float_0_7, score) THEN 3600
    ELSE 1800
RewardDuration(score) ==
    IF FloatGeq(score, Float_0_9) THEN 7200
    ELSE IF FloatGeq(score, Float_0_8) THEN 5400
    ELSE IF FloatGeq(score, Float_0_7) THEN 3600
    ELSE 1800

IdleCall == [op |-> "none", session_id |-> 0, publisher_id |-> "",
             task_id |-> UnknownTask, response |-> "", time_spent_ms |-> 0,
             expertise |-> "", max_complexity |-> 0, complexity_level |-> 0,
             golden_set |-> FALSE, completed |-> {}, incsBefore |-> 0,
             submittedBefore |-> 0, count |-> 0, complexity |-> "",
             found |-> FALSE, task_data |-> NoTaskData,
             profile |-> NewProfile,
             validation_type |-> "", validation |-> NoValidation,
             writes |-> {}, result |-> NoResult]

(***************************************************************************)
(* initialize_user_session                                                 *)
(***************************************************************************)
\* lines 43-78: a fresh session id, the session record is stored
InitSession_SetSession(h, pub) ==
    /\ tpc[h] = "idle"
    /\ nops < MaxOps
    /\ nops' = nops + 1
    /\ nsess' = nsess + 1
    /\ LET sid == nsess + 1
       IN /\ kv' = Set(kv, SessionKey(pub, sid),
                       [session_id |-> sid, publisher_id |-> pub,
                        created_at |-> clock, expires_at |-> clock + DayTTL],
                       DayTTL)
          /\ treq' = [treq EXCEPT ![h] = [IdleCall EXCEPT !.op = "init",
                         !.session_id = sid, !.publisher_id = pub,
                         !.writes = {SessionKey(pub, sid)}]]
    /\ tpc' = [tpc EXCEPT ![h] = "in_profile"]
    /\ UNCHANGED <<clock, rateVars, ntasks, nvals, nadv, submitted, issued,
                   handed, incs>>

\* lines 81-82
InitSession_SetProfile(h) ==
    /\ tpc[h] = "in_profile"
    /\ LET r == treq[h]
           key == ProfileKey(r.publisher_id, r.session_id)
       IN /\ kv' = Set(kv, key, NewProfile, DayTTL)
          /\ treq' = [treq EXCEPT ![h].writes = @ \cup {key}]
    /\ tpc' = [tpc EXCEPT ![h] = "in_counter"]
    /\ UNCHANGED <<clock, rateVars, nsess, ntasks, nvals, nops, nadv, submitted,
                   issued, handed, incs>>

\* lines 85-92: the counter starts at "0"; the session id is returned
InitSession_SetCounter(h) ==
    /\ tpc[h] = "in_counter"
    /\ LET r == treq[h]
           key == CounterKey(r.session_id)
       IN /\ kv' = Set(kv, key, 0, DayTTL)
          /\ treq' = [treq EXCEPT ![h].writes = @ \cup {key},
                                  ![h].result = [kind |-> "session",
                                                 session_id |-> r.session_id,
                                                 profile |-> NewProfile]]
          /\ issued' = issued \cup {r.session_id}
    /\ tpc' = [tpc EXCEPT ![h] = "done"]
    /\ UNCHANGED <<clock, rateVars, nsess, ntasks, nvals, nops, nadv, submitted,
                   handed, incs>>

(***************************************************************************)
(* get_next_task                                                           *)
(***************************************************************************)
\* lines 54-56: return None
NoneResponseMut == [kind |-> "task", task_id |-> UnknownTask]
NoneResponse == [kind |-> "None"]

\* lines 87-99: the TaskResponse built for the caller, r the call's locals
TaskViewMut(r, now) ==
    [kind |-> "task", task_id |-> r.task_id, task_type |-> "vqa",
     content |-> [image_url |-> <<"image", r.task_id>>,
                  question |-> "What color is the car in this image?"],
     options |-> <<"Red", "Blue", "Green", "Yellow">>,
     time_estimate_seconds |-> 5,
     complexity_level |-> r.complexity_level,
     golden_set |-> r.golden_set,
     expires_at |-> now + LeaseTTL,
     expected_answer |-> IF r.golden_set THEN "Blue" ELSE NoAnswer]
TaskView(r, now) ==
    [kind |-> "task", task_id |-> r.task_id, task_type |-> "vqa",
     content |-> [image_url |-> <<"image", r.task_id>>,
                  question |-> "What color is the car in this image?"],
     options |-> <<"Red", "Blue", "Green", "Yellow">>,
     time_estimate_seconds |-> 5,
     complexity_level |-> r.complexity_level,
     golden_set |-> r.golden_set,
     expires_at |-> now + LeaseTTL]

\* lines 103-112: the assignment stored under task:{task_id}
TaskData(r, now) ==
    [task_id |-> r.task_id, task_type |-> "vqa",
     golden_set |-> r.golden_set,
     expected_answer |-> IF r.golden_set THEN "Blue" ELSE NoAnswer,
     publisher_id |-> r.publisher_id,
     session_id |-> r.session_id,
     complexity_level |-> r.complexity_level,
     created_at |-> now]

\* lines 50-72: the profile is loaded, the task id and complexity chosen
GetNextTask_LoadProfile(h, sess, pub) ==
    /\ tpc[h] = "idle"
    /\ nops < MaxOps
    /\ nops' = nops + 1
    /\ LET key == ProfileKey(pub, sess)
           r == [IdleCall EXCEPT !.op = "next", !.session_id = sess,
                                 !.publisher_id = pub]
       IN IF key \notin DOMAIN kv
          THEN \* lines 54-56
               /\ treq' = [treq EXCEPT ![h] = [r EXCEPT
                              !.result = NoneResponse]]
               /\ tpc' = [tpc EXCEPT ![h] = "done"]
               /\ UNCHANGED ntasks
          ELSE LET profile == kv[key].val
                   beginner == IsBeginner(profile.expertise_level)
               IN /\ ntasks' = ntasks + 1
                  /\ treq' = [treq EXCEPT ![h] = [r EXCEPT
                        !.task_id = ntasks + 1,
                        !.expertise = profile.expertise_level,
                        !.max_complexity = profile.max_complexity,
                        !.complexity_level = Min(profile.max_complexity, 3),
                        !.golden_set = FALSE,
                        !.completed = CounterValue(kv, sess),
                        !.incsBefore = incs[sess]]]
                  /\ tpc' = [tpc EXCEPT ![h] =
                        IF beginner THEN "gn_counter" ELSE "gn_lease"]
    /\ UNCHANGED <<clock, rateVars, kv, nsess, nvals, nadv, submitted, issued,
                   handed, incs>>

\* lines 77-80: the counter is read only for a beginner
GetNextTask_ReadCounter(h) ==
    /\ tpc[h] = "gn_counter"
    /\ LET r == treq[h]
           counter == CounterValue(kv, r.session_id)
       IN treq' = [treq EXCEPT ![h] = [r EXCEPT
                      !.golden_set = CounterIsZero(counter),
                      !.completed = counter,
                      !.incsBefore = incs[r.session_id]]]
    /\ tpc' = [tpc EXCEPT ![h] = "gn_lease"]
    /\ UNCHANGED <<clock, rateVars, kv, nsess, ntasks, nvals, nops, nadv, submitted,
                   issued, handed, incs>>

\* lines 83-84
GetNextTask_SetLease(h) ==
    /\ tpc[h] = "gn_lease"
    /\ LET r == treq[h]
           key == LeaseKey(r.task_id)
       IN /\ kv' = Set(kv, key, r.session_id, LeaseTTL)
          /\ treq' = [treq EXCEPT ![h].writes = @ \cup {key}]
    /\ tpc' = [tpc EXCEPT ![h] = "gn_task"]
    /\ UNCHANGED <<clock, rateVars, nsess, ntasks, nvals, nops, nadv, submitted,
                   issued, handed, incs>>

\* lines 87-114: the task view is built, the assignment stored
GetNextTask_SetTask(h) ==
    /\ tpc[h] = "gn_task"
    /\ LET r == treq[h]
           key == TaskKey(r.task_id)
           data == TaskData(r, clock)
           view == TaskView(r, clock)
       IN /\ kv' = Set(kv, key, data, TaskTTL)
          /\ treq' = [treq EXCEPT ![h].writes = @ \cup {key},
                                  ![h].result = view]
          /\ handed' = Append(handed,
                 [task_id |-> r.task_id, session_id |-> r.session_id,
                  golden_set |-> r.golden_set, expertise |-> r.expertise,
                  completed |-> r.completed, incsBefore |-> r.incsBefore,
                  complexity_level |-> r.complexity_level])
    /\ tpc' = [tpc EXCEPT ![h] = "done"]
    /\ UNCHANGED <<clock, rateVars, nsess, ntasks, nvals, nops, nadv, submitted,
                   issued, incs>>

(***************************************************************************)
(* submit_task_result and validate_label_quality                           *)
(***************************************************************************)
\* the task ids a client can name: those handed out, and an unknown one
KnownTasks == {handed[i].task_id : i \in DOMAIN handed} \cup {UnknownTask}

\* submit_task_result, lines 143-155
Submit_GetTask(h, tid, sess, pub, response, ms) ==
    /\ tpc[h] = "idle"
    /\ nops < MaxOps
    /\ nops' = nops + 1
    /\ LET key == TaskKey(tid)
           r == [IdleCall EXCEPT !.op = "submit", !.task_id = tid,
                   !.session_id = sess, !.publisher_id = pub,
                   !.response = response, !.time_spent_ms = ms,
                   !.submittedBefore = Len(submitted)]
       IN IF key \notin DOMAIN kv
          THEN /\ treq' = [treq EXCEPT ![h] = [r EXCEPT
                              !.result = NotFoundResponse]]
               /\ tpc' = [tpc EXCEPT ![h] = "done"]
          ELSE /\ treq' = [treq EXCEPT ![h] = [r EXCEPT
                              !.found = TRUE,
                              !.task_data = kv[key].val,
                              !.validation_type =
                                  IF kv[key].val.golden_set
                                  THEN "golden_set" ELSE "consensus"]]
               /\ tpc' = [tpc EXCEPT ![h] = "vl_get"]
    /\ UNCHANGED <<clock, rateVars, kv, nsess, ntasks, nvals, nadv, submitted, issued,
                   handed, incs>>

\* validate_label_quality, lines 54-98: the assignment is read again
Validate_GetTask(h) ==
    /\ tpc[h] = "vl_get"
    /\ nvals' = nvals + 1
    /\ LET r == treq[h]
           key == TaskKey(r.task_id)
       IN IF key \notin DOMAIN kv
          THEN /\ treq' = [treq EXCEPT ![h].validation =
                              TaskNotFoundValidation(nvals + 1)]
               /\ tpc' = [tpc EXCEPT ![h] = "sb_store"]
          ELSE /\ treq' = [treq EXCEPT ![h].validation =
                              ScoreLabel(nvals + 1, r.validation_type,
                                         kv[key].val, r.response,
                                         r.time_spent_ms)]
               /\ tpc' = [tpc EXCEPT ![h] = "vl_store"]
    /\ UNCHANGED <<clock, rateVars, kv, nsess, ntasks, nops, nadv, submitted, issued,
                   handed, incs>>

\* validate_label_quality, lines 101-113
Validate_Store(h) ==
    /\ tpc[h] = "vl_store"
    /\ LET r == treq[h]
           v == r.validation
           key == ValidationKey(v.validation_id)
       IN /\ kv' = Set(kv, key,
                       [validation_id |-> v.validation_id,
                        task_id |-> r.task_id, session_id |-> r.session_id,
                        publisher_id |-> r.publisher_id,
                        response |-> r.response,
                        time_spent_ms |-> r.time_spent_ms,
                        quality_score |-> v.quality_score,
                        validation_method |-> r.validation_type,
                        issues_detected |-> v.issues_detected,
                        validated_at |-> clock],
                       DayTTL)
          /\ treq' = [treq EXCEPT ![h].writes = @ \cup {key}]
    /\ tpc' = [tpc EXCEPT ![h] = "sb_store"]
    /\ UNCHANGED <<clock, rateVars, nsess, ntasks, nvals, nops, nadv, submitted,
                   issued, handed, incs>>

\* submit_task_result, lines 182-191
Submit_Store(h) ==
    /\ tpc[h] = "sb_store"
    /\ LET r == treq[h]
           key == SubmissionKey(r.task_id)
       IN /\ kv' = Set(kv, key,
                       [task_id |-> r.task_id, session_id |-> r.session_id,
                        publisher_id |-> r.publisher_id,
                        response |-> r.response,
                        time_spent_ms |-> r.time_spent_ms,
                        quality_score |-> r.validation.quality_score,
                        submitted_at |-> clock],
                       DayTTL)
          /\ treq' = [treq EXCEPT ![h].writes = @ \cup {key}]
    /\ tpc' = [tpc EXCEPT ![h] = "sb_incr"]
    /\ UNCHANGED <<clock, rateVars, nsess, ntasks, nvals, nops, nadv, submitted,
                   issued, handed, incs>>

\* submit_task_result, lines 194-207
Submit_Incr(h) ==
    /\ tpc[h] = "sb_incr"
    /\ LET r == treq[h]
           key == CounterKey(r.session_id)
           result == [kind |-> "submission", success |-> TRUE,
                      reward |-> [type |-> "content_access",
                                  duration_seconds |->
                                      RewardDuration(r.validation.quality_score)],
                      quality_score |-> r.validation.quality_score,
                      next_task_available |-> TRUE]
       IN /\ kv' = Incr(kv, key)
          /\ incs' = [incs EXCEPT ![r.session_id] = @ + 1]
          /\ treq' = [treq EXCEPT ![h].writes = @ \cup {key},
                                  ![h].result = result]
          /\ submitted' = Append(submitted,
                 [task_id |-> r.task_id, session_id |-> r.session_id,
                  response |-> r.response,
                  time_spent_ms |-> r.time_spent_ms,
                  validation |-> r.validation,
                  validated |-> ValidationKey(r.validation.validation_id)
                                    \in r.writes,
                  result |-> result,
                  before |-> CounterValue(kv, r.session_id),
                  after |-> CounterValue(Incr(kv, key), r.session_id),
                  submittedBefore |-> r.submittedBefore])
    /\ tpc' = [tpc EXCEPT ![h] = "done"]
    /\ UNCHANGED <<clock, rateVars, nsess, ntasks, nvals, nops, nadv,
                   issued, handed>>

(***************************************************************************)
(* update_user_profile                                                     *)
(***************************************************************************)
\* lines 123-131
NewExpertise(expertise, metrics) ==
    LET e1 == IF metrics # NoMetrics /\ metrics[1] >= 85 /\ metrics[2] >= 10
              THEN "intermediate" ELSE expertise
    IN IF metrics # NoMetrics /\ metrics[1] >= 90 /\ metrics[2] >= 50
       THEN "expert" ELSE e1

\* lines 151-152
MaxComplexityMapMut(expertise) ==
    IF expertise = "beginner" THEN 2
    ELSE IF expertise = "intermediate" THEN 3
    ELSE 3
MaxComplexityMap(expertise) ==
    IF expertise = "beginner" THEN 2
    ELSE IF expertise = "intermediate" THEN 3
    ELSE IF expertise = "expert" THEN 5
    ELSE 2

\* lines 113-152: the profile is loaded, the new level computed
UpdateProfile_Load(h, sess, pub, metrics) ==
    /\ tpc[h] = "idle"
    /\ nops < MaxOps
    /\ nops' = nops + 1
    /\ LET key == ProfileKey(pub, sess)
           r == [IdleCall EXCEPT !.op = "update", !.session_id = sess,
                                 !.publisher_id = pub]
       IN IF key \notin DOMAIN kv
          THEN /\ treq' = [treq EXCEPT ![h] = r]
               /\ tpc' = [tpc EXCEPT ![h] = "done"]
          ELSE LET level == NewExpertise(kv[key].val.expertise_level, metrics)
               IN /\ treq' = [treq EXCEPT ![h] = [r EXCEPT
                        !.found = TRUE,
                        !.profile = kv[key].val,
                        !.expertise = level,
                        !.max_complexity = MaxComplexityMap(level)]]
                  /\ tpc' = [tpc EXCEPT ![h] = "up_store"]
    /\ UNCHANGED <<clock, rateVars, kv, nsess, ntasks, nvals, nadv, submitted,
                   issued, handed, incs>>

\* lines 163-174: the profile that was loaded is written back, updated
UpdateProfile_Store(h) ==
    /\ tpc[h] = "up_store"
    /\ LET r == treq[h]
           key == ProfileKey(r.publisher_id, r.session_id)
           updated == [r.profile EXCEPT !.expertise_level = r.expertise,
                                        !.max_complexity = r.max_complexity]
       IN /\ kv' = Set(kv, key, updated, DayTTL)
          /\ treq' = [treq EXCEPT ![h].writes = @ \cup {key},
                                  ![h].result = [kind |-> "profile",
                                        success |-> TRUE,
                                        expertise_level |-> r.expertise,
                                        max_complexity |-> r.max_complexity]]
    /\ tpc' = [tpc EXCEPT ![h] = "done"]
    /\ UNCHANGED <<clock, rateVars, nsess, ntasks, nvals, nops,
                   nadv, submitted, issued, handed, incs>>

(***************************************************************************)
(* get_task_batch                                                          *)
(***************************************************************************)
\* lines 239-243
BatchComplexity(complexity) ==
    IF complexity = "medium" THEN 2
    ELSE IF complexity = "high" THEN 3
    ELSE 1

\* lines 246-258: count task summaries with fresh ids, the first of them
\* being first
BatchTasksMut(first, count, level) ==
    [i \in 1..(count + 1) |->
        [task_id |-> first + i - 1, task_type |-> "vqa",
         content |-> [image_url |-> <<"image", i - 1>>,
                      question |-> "What color is the car in this image?"],
         options |-> <<"Red", "Blue", "Green", "Yellow">>,
         complexity_level |-> level]]
BatchTasks(first, count, level) ==
    [i \in 1..count |->
        [task_id |-> first + i - 1, task_type |-> "vqa",
         content |-> [image_url |-> <<"image", i - 1>>,
                      question |-> "What color is the car in this image?"],
         options |-> <<"Red", "Blue", "Green", "Yellow">>,
         complexity_level |-> level]]

\* line 261: f"batch_{int(datetime.now().timestamp())}"
BatchId(now) == <<"batch_", now>>

\* lines 239-274: the one await is the redis.set of the batch record
GetTaskBatch(h, pub, count, complexity) ==
    /\ tpc[h] = "idle"
    /\ nops < MaxOps
    /\ nops' = nops + 1
    /\ ntasks' = ntasks + count
    /\ LET tasks == BatchTasks(ntasks + 1, count, BatchComplexity(complexity))
           batch_id == BatchId(clock)
           key == BatchKey(batch_id)
       IN /\ kv' = Set(kv, key,
                       [batch_id |-> batch_id, publisher_id |-> pub,
                        tasks |-> tasks, created_at |-> clock],
                       BatchTTL)
          /\ treq' = [treq EXCEPT ![h] = [IdleCall EXCEPT
                         !.op = "batch", !.publisher_id = pub,
                         !.count = count, !.complexity = complexity,
                         !.writes = {key},
                         !.result = [kind |-> "batch", batch_id |-> batch_id,
                                     tasks |-> tasks,
                                     expires_at |-> clock + 1800]]]
    /\ tpc' = [tpc EXCEPT ![h] = "done"]
    /\ UNCHANGED <<clock, rateVars, nsess, nvals, nadv, submitted, issued,
                   handed, incs>>

\* the response of a service call is returned
Finish(h) ==
    /\ tpc[h] = "done"
    /\ tpc' = [tpc EXCEPT ![h] = "idle"]
    /\ treq' = [treq EXCEPT ![h] = IdleCall]
    /\ UNCHANGED <<clock, rateVars, kv, nsess, ntasks, nvals, nops, nadv, submitted,
                   issued, handed, incs>>

\* time passes between two steps; the store drops the keys whose TTL ran out
Advance(d) ==
    /\ nadv < MaxAdvances
    /\ nadv' = nadv + 1
    /\ clock' = clock + d
    /\ kv' = Unexpired(kv, clock + d)
    /\ rl' = Unexpired(rl, clock + d)
    /\ UNCHANGED <<redis_pool, storeUp, rpc, req, ncalls, history>>
    /\ UNCHANGED <<tpc, treq, nsess, ntasks, nvals, nops,
                   issued, handed, incs, submitted>>

TaskIdle ==
    /\ kv = << >>
    /\ tpc = [h \in TProcs |-> "idle"]
    /\ treq = [h \in TProcs |-> IdleCall]
    /\ nsess = 0
    /\ ntasks = 0
    /\ nvals = 0
    /\ nops = 0
    /\ nadv = 0
    /\ issued = {}
    /\ handed = << >>
    /\ incs = [s \in 1..MaxOps |-> 0]
    /\ submitted = << >>

RateIdle ==
    /\ storeUp = TRUE
    /\ rl = << >>
    /\ rpc = [p \in RProcs |-> "idle"]
    /\ req = [p \in RProcs |-> IdleReq]
    /\ ncalls = 0
    /\ history = << >>

RateInit ==
    /\ clock = 0
    /\ redis_pool \in {NoPool, Pool}
    /\ RateIdle
    /\ TaskIdle

\* the services are called with the pool that get_redis initialised
TaskInit ==
    /\ clock = 0
    /\ redis_pool = Pool
    /\ RateIdle
    /\ TaskIdle

DispatchRate ==
    /\ ncalls < MaxCalls
    /\ \E p \in RProcs, hdr \in RateHeaders, path \in RatePaths :
          Dispatch(p, hdr, path)

DispatchFail ==
    /\ ncalls < MaxFailCalls
    /\ \E p \in RProcs, hdr \in RateHeaders, path \in RatePaths :
          Dispatch(p, hdr, path)

DispatchKey ==
    /\ ncalls < MaxKeyCalls
    /\ \E p \in RProcs, hdr \in KeyHeaders, path \in KeyPaths :
          Dispatch(p, hdr, path)

Pipeline ==
    \E p \in RProcs :
        \/ ZRemRangeByScore(p)
        \/ ZCard(p)
        \/ ZAdd(p)
        \/ Expire(p)

\* the sliding window under concurrent requests on one key
RateNext ==
    \/ DispatchRate
    \/ Pipeline
    \/ \E p \in RProcs : Respond(p)
    \/ Tick

\* the same with a store that can become unreachable
FailNext ==
    \/ DispatchFail
    \/ Pipeline
    \/ \E p \in RProcs : ExecuteFails(p)
    \/ \E p \in RProcs : Respond(p)
    \/ Tick
    \/ StoreFails
    \/ StoreRecovers

\* requests of several callers on several paths within one second
KeyNext ==
    \/ DispatchKey
    \/ Pipeline
    \/ \E p \in RProcs : Respond(p)

(***************************************************************************)
(* Rate limiter: properties                                                *)
(***************************************************************************)
\* the checks that ran against the store
Stored == {i \in DOMAIN history : history[i].stored}

\* the allowed checks on the key of check i that completed before it
AllowedBefore(i) ==
    {j \in Stored : j < i /\ history[j].key = history[i].key
                          /\ history[j].outcome = "passed"}

\* the timestamps of the earlier checks on the key of check i that are not
\* older than its window, whatever their outcome
RecentStamps(i) ==
    {history[j].now : j \in {k \in Stored : /\ k < i
                                           /\ history[k].key = history[i].key
                                           /\ history[k].now > history[i].now - history[i].window}}

\* C1: on one key with limit L and window W no more than L checks are
\* allowed within any span of W seconds.
C1_AtMostLimitPerWindow ==
    \A i \in Stored : \A t \in 0..MaxClock :
        Cardinality({j \in Stored : /\ history[j].key = history[i].key
                                    /\ history[j].outcome = "passed"
                                    /\ history[j].now > t - history[i].window
                                    /\ history[j].now <= t})
            <= history[i].limit

\* C2 (as stated): once L checks on a key were allowed and the clock is
\* more than W seconds past the first of them, the next check on the key
\* is allowed.
C2_NextCallAllowed ==
    \A i \in Stored :
        (\E j \in AllowedBefore(i) :
            /\ Cardinality({k \in AllowedBefore(i) : k >= j}) = history[i].limit
            /\ history[i].now > history[j].now + history[i].window)
        => history[i].outcome = "passed"

\* C2 (amended): after a check at time now no member stamped now - W or
\* earlier is left in the window, and a check is allowed whenever fewer
\* than L distinct timestamps of earlier checks on the key, rejected ones
\* included, lie within the W seconds before it.
C2_SlotFreedUnlessOccupied ==
    /\ \A p \in RProcs :
          (rpc[p] = "done" /\ req[p].idx = 5) =>
              \A m \in req[p].final : m > req[p].current - req[p].window
    /\ \A i \in Stored :
          Cardinality(RecentStamps(i)) < history[i].limit
              => history[i].outcome = "passed"

\* L checks were allowed, more than W seconds passed since the first of
\* them, and the next check was allowed
C2_Witness ==
    \E i \in Stored :
        /\ history[i].outcome = "passed"
        /\ \E j \in AllowedBefore(i) :
            /\ Cardinality({k \in AllowedBefore(i) : k >= j}) = history[i].limit
            /\ history[i].now > history[j].now + history[i].window

\* C3: right after a check at time now the window holds a member stamped
\* now, every member lies within [now - W, now] and the TTL of the key is
\* W, whether the check was allowed or rejected.
C3_WindowAfterCheck ==
    \A p \in RProcs :
        (rpc[p] = "done" /\ req[p].idx = 5) =>
            /\ req[p].current \in req[p].final
            /\ \A m \in req[p].final :
                  /\ m >= req[p].current - req[p].window
                  /\ m <= req[p].current
            /\ req[p].ttl = {req[p].window}

\* C4: a check made while the store is unreachable lets the request pass.
C4_FailOpen ==
    \A p \in RProcs :
        (rpc[p] = "done" /\ req[p].down) => req[p].outcome = "passed"

\* C5: two checks of the same caller on paths of the same rate-limit class
\* use the same window, and checks of different callers never do.
C5_KeyedByCallerAndClass ==
    \A i, j \in DOMAIN history :
        /\ (history[i].hdr = history[j].hdr /\ history[i].class = history[j].class)
              => history[i].key = history[j].key
        /\ history[i].hdr # history[j].hdr => history[i].key # history[j].key

\* C6: the count a check returns and the window it leaves are those of
\* trimming, counting and adding on the window as it was when its first
\* command ran: no command of another check ran in between.
C6_PipelineIsAtomic ==
    \A p \in RProcs :
        (rpc[p] = "done" /\ req[p].idx = 5) =>
            LET kept == RemRange(req[p].snap, req[p].current - req[p].window)
            IN /\ req[p].count = Cardinality(kept)
               /\ req[p].final = kept \cup {req[p].current}
               /\ req[p].ttl = {req[p].window}

\* a check completed on a window another check had changed while the first
\* one was waiting for the store, and a further check is waiting
C6_Witness ==
    \E p, q \in RProcs :
        /\ p # q
        /\ rpc[p] = "done" /\ req[p].idx = 5
        /\ rpc[q] = "execute" /\ req[q].key = req[p].key
        /\ Cardinality(req[p].snap) >= 2
        /\ req[p].outcome = "rejected"


InitSession == \E h \in TProcs, pub \in Publishers :
    \/ InitSession_SetSession(h, pub)
    \/ InitSession_SetProfile(h)
    \/ InitSession_SetCounter(h)

GetNextTask == \E h \in TProcs :
    \/ \E sess \in issued, pub \in Publishers :
          GetNextTask_LoadProfile(h, sess, pub)
    \/ GetNextTask_ReadCounter(h)
    \/ GetNextTask_SetLease(h)
    \/ GetNextTask_SetTask(h)

SubmitTaskResult == \E h \in TProcs :
    \/ \E tid \in KnownTasks, sess \in issued, pub \in Publishers,
          response \in Responses, ms \in TimesSpent :
          Submit_GetTask(h, tid, sess, pub, response, ms)
    \/ Validate_GetTask(h)
    \/ Validate_Store(h)
    \/ Submit_Store(h)
    \/ Submit_Incr(h)

UpdateUserProfile == \E h \in TProcs :
    \/ \E sess \in issued, pub \in Publishers, metrics \in Metrics :
          UpdateProfile_Load(h, sess, pub, metrics)
    \/ UpdateProfile_Store(h)

\* sessions are initialised, tasks fetched and submitted by concurrent
\* requests while time passes
TaskNext ==
    \/ InitSession
    \/ GetNextTask
    \/ SubmitTaskResult
    \/ UpdateUserProfile
    \/ \E h \in TProcs : Finish(h)
    \/ \E d \in Jumps : Advance(d)

\* submissions with times on both sides of the validator's thresholds
SubmitScored == \E h \in TProcs :
    \/ \E tid \in KnownTasks, sess \in issued, pub \in Publishers,
          response \in Responses, ms \in ScoreTimes :
          Submit_GetTask(h, tid, sess, pub, response, ms)
    \/ Validate_GetTask(h)
    \/ Validate_Store(h)
    \/ Submit_Store(h)
    \/ Submit_Incr(h)

\* the scoring scenario: no key expires
ScoreNext ==
    \/ InitSession
    \/ GetNextTask
    \/ SubmitScored
    \/ UpdateUserProfile
    \/ \E h \in TProcs : Finish(h)

(***************************************************************************)
(* The middleware in front of the services: request r1 is served by the    *)
(* handler h1, r2 by h2.                                                    *)
(***************************************************************************)
HandlerOf(p) == IF p = "r1" THEN "h1" ELSE "h2"
RequestOf(h) == IF h = "h1" THEN "r1" ELSE "r2"

\* the paths of the requests that reach a service: r1 receives the
\* requests for a session, r2 those for a task
GatePaths(p) == IF p = "r1" THEN {SessionsPath} ELSE {NextPath}

\* dispatch, lines 36-53: call_next is reached unless is_rate_limited
CallsNextMut(outcome) == TRUE
CallsNext(outcome) == outcome = "passed"

\* a request enters the middleware once its handler is free
GateDispatch ==
    /\ ncalls < MaxGateCalls
    /\ \E p \in RProcs, hdr \in RateHeaders :
        \E path \in GatePaths(p) :
          /\ tpc[HandlerOf(p)] = "idle"
          /\ Dispatch(p, hdr, path)

\* dispatch, line 53: the route handler calls its service
GateCallNext ==
    \E p \in RProcs :
        /\ rpc[p] = "done"
        /\ CallsNext(req[p].outcome)
        /\ \/ /\ req[p].path = SessionsPath
              /\ InitSession_SetSession(HandlerOf(p), req[p].hdr)
           \/ /\ req[p].path = NextPath
              /\ \E sess \in issued :
                    GetNextTask_LoadProfile(HandlerOf(p), sess, req[p].hdr)

\* the service runs on
GateService ==
    \E h \in TProcs :
        \/ InitSession_SetProfile(h)
        \/ InitSession_SetCounter(h)
        \/ GetNextTask_ReadCounter(h)
        \/ GetNextTask_SetLease(h)
        \/ GetNextTask_SetTask(h)

\* dispatch, lines 37-50 and 55-60: the 429, or the handler's response
GateRespond ==
    \E p \in RProcs :
        /\ CallsNext(req[p].outcome) => tpc[HandlerOf(p)] = "done"
        /\ Respond(p)

GateFinish ==
    \E h \in TProcs :
        /\ rpc[RequestOf(h)] = "idle"
        /\ Finish(h)

\* a second passes
GateTick ==
    /\ clock < MaxGateClock
    /\ Tick

\* requests pass the rate limiter before they reach a service
GateNext ==
    \/ GateDispatch
    \/ Pipeline
    \/ GateCallNext
    \/ GateService
    \/ GateRespond
    \/ GateFinish
    \/ GateTick

\* batches are fetched by concurrent requests next to single tasks
BatchNext ==
    \/ InitSession
    \/ GetNextTask
    \/ \E h \in TProcs, pub \in Publishers, count \in BatchCounts,
          complexity \in Complexities :
          GetTaskBatch(h, pub, count, complexity)
    \/ \E h \in TProcs : Finish(h)
    \/ \E d \in BatchJumps : Advance(d)

(***************************************************************************)
(* Task selection and submission: properties                               *)
(***************************************************************************)
\* the tasks handed out to the session of task i
SameSession(i) == {j \in DOMAIN handed : handed[j].session_id = handed[i].session_id}

\* C7: a task handed out is golden set exactly when, at the moment
\* get_next_task decided, the stored profile was a beginner's and the
\* stored completion counter of the session was 0.
C7_GoldenIffBeginnerWithZeroCompleted ==
    \A i \in DOMAIN handed :
        handed[i].golden_set <=>
            (handed[i].expertise = "beginner" /\ handed[i].completed = {0})

\* a beginner session got a golden-set task first and, once its counter
\* had been incremented, a task that is not golden set
C7_Witness ==
    \E i, j \in DOMAIN handed :
        /\ i < j
        /\ handed[i].session_id = handed[j].session_id
        /\ handed[i].golden_set /\ handed[i].completed = {0}
        /\ handed[j].expertise = "beginner" /\ handed[j].completed = {1}
        /\ ~handed[j].golden_set

\* C8 (as stated): of the tasks handed out to a beginner session within
\* its day the first is golden set and no other is.
C8_ExactlyOneGolden ==
    \A i \in DOMAIN handed :
        (\A j \in SameSession(i) : /\ handed[j].expertise = "beginner"
                                   /\ handed[j].completed # {}) =>
            (handed[i].golden_set <=> \A j \in SameSession(i) : i <= j)

\* C8 (amended): no task decided after a submission was counted for the
\* session is golden set, and every task decided for a beginner before any
\* submission was counted, while the counter key exists, is golden set.
C8_GoldenUntilFirstSubmission ==
    \A i \in DOMAIN handed :
        /\ handed[i].incsBefore > 0 => ~handed[i].golden_set
        /\ (/\ handed[i].incsBefore = 0
            /\ handed[i].expertise = "beginner"
            /\ handed[i].completed # {}) => handed[i].golden_set

\* a session was handed two golden-set tasks before its first submission
C8_Witness ==
    \E i, j \in DOMAIN handed :
        /\ i < j
        /\ handed[i].session_id = handed[j].session_id
        /\ handed[i].golden_set /\ handed[j].golden_set
        /\ handed[j].incsBefore = 0

\* C9: a submission whose validation found no assignment gets reward
\* type none.
C9_NoRewardWhenNotFound ==
    \A h \in TProcs :
        (/\ tpc[h] = "done" /\ treq[h].op = "submit"
         /\ "task_not_found" \in treq[h].validation.issues_detected)
            => treq[h].result.reward.type = "none"

\* C10: a submission whose assignment is missing at the handler's lookup
\* returns success false, reward none and quality 0 and writes nothing:
\* no submission record, no counter increment.
C10_MissingAssignmentIsNotFound ==
    \A h \in TProcs :
        (tpc[h] = "done" /\ treq[h].op = "submit" /\ ~treq[h].found) =>
            /\ treq[h].result.kind = "submission"
            /\ treq[h].result.success = FALSE
            /\ treq[h].result.reward.type = "none"
            /\ treq[h].result.quality_score = FloatZero
            /\ treq[h].writes = {}
            /\ treq[h].validation = NoValidation

\* a task that was handed out is submitted after its hour and not found
C10_Witness ==
    \E h \in TProcs : \E i \in DOMAIN handed :
        /\ tpc[h] = "done" /\ treq[h].op = "submit" /\ ~treq[h].found
        /\ treq[h].task_id = handed[i].task_id
        /\ clock >= TaskTTL
        /\ treq[h].result.success = FALSE

\* C11: a submission record is written and the completion counter
\* incremented only by a submission whose validation found the assignment
\* and stored a validation result before.
C11_RecordedOnlyAfterValidation ==
    \A h \in TProcs :
        (/\ treq[h].op = "submit"
         /\ \/ SubmissionKey(treq[h].task_id) \in treq[h].writes
            \/ CounterKey(treq[h].session_id) \in treq[h].writes)
            => /\ ValidationKey(treq[h].validation.validation_id)
                      \in treq[h].writes
               /\ "task_not_found" \notin treq[h].validation.issues_detected

\* the submissions counted for a session
CountedFor(sess) == {i \in DOMAIN submitted : submitted[i].session_id = sess}

\* the counter key of the session was not recreated between the
\* submissions i and j
SameCounter(i, j) == \A k \in (i + 1)..j :
    submitted[k].session_id = submitted[i].session_id
        => submitted[k].before # {}

\* C12: every submission that found its assignment increments the counter
\* of the submitting session by exactly 1, whatever runs concurrently:
\* while the counter set at session start exists it equals the number of
\* such submissions, and the counter never decreases while it exists.
C12_EverySubmissionCountsOnce ==
    /\ \A h \in TProcs :
          (tpc[h] = "done" /\ treq[h].op = "submit" /\ treq[h].found)
              => CounterKey(treq[h].session_id) \in treq[h].writes
    /\ \A i \in DOMAIN submitted :
          submitted[i].after =
              IF submitted[i].before = {} THEN {1}
              ELSE {v + 1 : v \in submitted[i].before}
    /\ \A sess \in 1..nsess : \A v \in CounterValue(kv, sess) :
          kv[CounterKey(sess)].exp # NoTTL
              => v = Cardinality(CountedFor(sess))
    /\ \A i, j \in DOMAIN submitted :
          (/\ i < j
           /\ submitted[i].session_id = submitted[j].session_id
           /\ SameCounter(i, j))
              => \A v \in submitted[i].after, w \in submitted[j].after : v < w

\* two submissions of one session ran concurrently and the counter is 2
C12_Witness ==
    \E i, j \in DOMAIN submitted :
        /\ i < j
        /\ submitted[i].session_id = submitted[j].session_id
        /\ submitted[j].submittedBefore < i
        /\ submitted[j].after = {2}
        /\ CounterValue(kv, submitted[j].session_id) = {2}

\* submission j started after submission i of the same task had ended
Resubmitted(i, j) ==
    /\ i < j
    /\ submitted[i].task_id = submitted[j].task_id
    /\ submitted[j].submittedBefore >= i

\* no other submission of the task ran while submission j did, and none
\* came after it
Undisturbed(j) ==
    /\ \A k \in DOMAIN submitted :
          (k # j /\ submitted[k].task_id = submitted[j].task_id)
              => k <= submitted[j].submittedBefore
    /\ \A h \in TProcs :
          (treq[h].op = "submit" /\ treq[h].task_id = submitted[j].task_id)
              => tpc[h] # "sb_incr"

\* C13: when a task is submitted again while its assignment exists, both
\* submissions return a successful content_access reward, each increments
\* the counter, and the one key submission:{task_id} holds the data of the
\* second submission.
C13_ResubmissionOverwritesAndCountsTwice ==
    \A i, j \in DOMAIN submitted :
        Resubmitted(i, j) =>
            /\ submitted[i].result.success /\ submitted[j].result.success
            /\ submitted[i].result.reward.type = "content_access"
            /\ submitted[j].result.reward.type = "content_access"
            /\ (/\ submitted[i].session_id = submitted[j].session_id
                /\ SameCounter(i, j))
                  => \A v \in submitted[i].after, w \in submitted[j].after :
                         w >= v + 1
            /\ (Undisturbed(j) /\ SubmissionKey(submitted[j].task_id) \in DOMAIN kv)
                  => LET rec == kv[SubmissionKey(submitted[j].task_id)].val
                     IN /\ rec.response = submitted[j].response
                        /\ rec.time_spent_ms = submitted[j].time_spent_ms
                        /\ rec.session_id = submitted[j].session_id
                        /\ rec.quality_score =
                               submitted[j].validation.quality_score

\* a task was submitted with one response and then again with another:
\* the record holds the second response and the counter went from 0 to 2
C13_Witness ==
    \E i, j \in DOMAIN submitted :
        /\ Resubmitted(i, j) /\ Undisturbed(j)
        /\ submitted[i].session_id = submitted[j].session_id
        /\ submitted[i].response # submitted[j].response
        /\ submitted[i].before = {0} /\ submitted[j].after = {2}
        /\ SubmissionKey(submitted[j].task_id) \in DOMAIN kv
        /\ kv[SubmissionKey(submitted[j].task_id)].val.response
               = submitted[j].response

\* C14: the task view returned by get_next_task has no expected answer;
\* the stored assignment has one exactly when the task is golden set.
C14_ViewWithoutExpectedAnswer ==
    /\ \A h \in TProcs :
          (tpc[h] = "done" /\ treq[h].op = "next"
                            /\ treq[h].result.kind = "task") =>
              /\ "expected_answer" \notin DOMAIN treq[h].result
              /\ DOMAIN treq[h].result.content = {"image_url", "question"}
    /\ \A tid \in 1..ntasks :
          TaskKey(tid) \in DOMAIN kv =>
              (kv[TaskKey(tid)].val.expected_answer # NoAnswer
                  <=> kv[TaskKey(tid)].val.golden_set)

\* a golden-set task was handed out: its assignment holds the answer
C14_Witness ==
    \E h \in TProcs :
        /\ tpc[h] = "done" /\ treq[h].op = "next"
        /\ treq[h].result.kind = "task"
        /\ TaskKey(treq[h].task_id) \in DOMAIN kv
        /\ kv[TaskKey(treq[h].task_id)].val.golden_set
        /\ kv[TaskKey(treq[h].task_id)].val.expected_answer = "Blue"

\* C15: two task views built at the same time for the same complexity,
\* one for a golden-set task and one not, differ in the task id only.
C15_GoldenSetHidden ==
    \A g, h \in TProcs :
        (/\ tpc[g] = "done" /\ treq[g].op = "next"
         /\ tpc[h] = "done" /\ treq[h].op = "next"
         /\ treq[g].result.kind = "task" /\ treq[h].result.kind = "task"
         /\ treq[g].result.complexity_level = treq[h].result.complexity_level
         /\ treq[g].result.expires_at = treq[h].result.expires_at)
            => [treq[g].result EXCEPT !.task_id = UnknownTask,
                                      !.content = <<>>]
                 = [treq[h].result EXCEPT !.task_id = UnknownTask,
                                          !.content = <<>>]

\* C16: get_next_task for a pair without a stored profile returns None
\* and writes nothing: no task id is drawn, the store stays as it is.
C16_NoProfileNoTask ==
    [][\A h \in TProcs :
          (/\ tpc[h] = "idle" /\ treq'[h].op = "next"
           /\ ProfileKey(treq'[h].publisher_id, treq'[h].session_id)
                  \notin DOMAIN kv)
              => /\ tpc'[h] = "done"
                 /\ treq'[h].result.kind = "None"
                 /\ treq'[h].writes = {}
                 /\ kv' = kv
                 /\ ntasks' = ntasks]_vars

\* a session whose profile has expired asked for a task and got None
C16_Witness ==
    \E h \in TProcs :
        /\ tpc[h] = "done" /\ treq[h].op = "next"
        /\ treq[h].result.kind = "None"
        /\ treq[h].session_id \in issued
        /\ ProfileKey(treq[h].publisher_id, treq[h].session_id)
               \notin DOMAIN kv

\* C17: whenever the lease of a task id exists, so does its assignment.
C17_LeaseImpliesAssignment ==
    \A tid \in 1..ntasks :
        LeaseKey(tid) \in DOMAIN kv => TaskKey(tid) \in DOMAIN kv

\* C18: validate_label_quality on a task id without a stored assignment
\* returns score 0.2, method unknown, the one issue task_not_found and
\* confidence low, and leaves the store as it is.
C18_ValidateMissingTask ==
    [][\A h \in TProcs :
          (/\ tpc[h] = "vl_get" /\ tpc'[h] # "vl_get"
           /\ TaskKey(treq[h].task_id) \notin DOMAIN kv)
              => /\ treq'[h].validation.quality_score = Float_0_2
                 /\ treq'[h].validation.validation_method = "unknown"
                 /\ treq'[h].validation.issues_detected = {"task_not_found"}
                 /\ treq'[h].validation.confidence = "low"
                 /\ treq'[h].writes = treq[h].writes
                 /\ kv' = kv]_vars

\* the assignment expired after the handler had read it, the validator
\* did not find it and wrote nothing
C18_Witness ==
    \E h \in TProcs :
        /\ tpc[h] = "sb_store" /\ treq[h].op = "submit" /\ treq[h].found
        /\ TaskKey(treq[h].task_id) \notin DOMAIN kv
        /\ treq[h].validation.issues_detected = {"task_not_found"}
        /\ treq[h].writes = {}

\* C19: for a golden-set assignment the validator uses method golden_set
\* with confidence high; the score is 1.0 without issues when the response
\* equals the stored expected answer, and 0.3 with the issue
\* incorrect_golden_set_answer otherwise, whatever the time spent.
C19_GoldenSetScore ==
    [][\A h \in TProcs :
          (/\ tpc[h] = "vl_get" /\ tpc'[h] # "vl_get"
           /\ TaskKey(treq[h].task_id) \in DOMAIN kv
           /\ kv[TaskKey(treq[h].task_id)].val.golden_set)
              => LET v == treq'[h].validation
                     answer == kv[TaskKey(treq[h].task_id)].val.expected_answer
                 IN /\ v.validation_method = "golden_set"
                    /\ v.confidence = "high"
                    /\ IF treq[h].response = answer
                       THEN /\ v.quality_score = Float_1_0
                            /\ v.issues_detected = {}
                       ELSE /\ v.quality_score = Float_0_3
                            /\ v.issues_detected =
                                   {"incorrect_golden_set_answer"}]_vars

\* a golden-set task is being validated twice: the right answer given in
\* under 500 ms scores 1.0, the wrong one given in over 30000 ms scores 0.3
C19_Witness ==
    \E g, h \in TProcs :
        /\ tpc[g] = "vl_store" /\ tpc[h] = "vl_store"
        /\ treq[g].task_data.golden_set /\ treq[h].task_data.golden_set
        /\ treq[g].response = "Blue" /\ treq[g].time_spent_ms < 500
        /\ treq[g].validation.quality_score = Float_1_0
        /\ treq[g].validation.issues_detected = {}
        /\ treq[h].response = "Red" /\ treq[h].time_spent_ms > 30000
        /\ treq[h].validation.quality_score = Float_0_3
        /\ treq[h].validation.confidence = "high"

\* the decimals 0.4 and 0.72 as floats
\* 0.4 = 0x1.999999999999ap-2
Decimal_0_4 == Float(-2, 1, 4915, 1638, 3276, 6554)
\* 0.72 = 0x1.70a3d70a3d70ap-1
Decimal_0_72 == Float(-1, 1, 3604, 3932, 1310, 5898)
\* 0.7200000000000001 = 0x1.70a3d70a3d70bp-1
Decimal_0_7200000000000001 == Float(-1, 1, 3604, 3932, 1310, 5899)

\* the validator's step on an assignment that is not golden set: the score
\* depends on the time spent only, slow being the score above 30000 ms
ConsensusStep(slow) ==
    \A h \in TProcs :
        (/\ tpc[h] = "vl_get" /\ tpc'[h] # "vl_get"
         /\ TaskKey(treq[h].task_id) \in DOMAIN kv
         /\ ~kv[TaskKey(treq[h].task_id)].val.golden_set)
            => LET v == treq'[h].validation
                   ms == treq[h].time_spent_ms
               IN /\ v.validation_method = "consensus"
                  /\ v.confidence = "medium"
                  /\ IF ms < 500
                     THEN /\ v.quality_score = Decimal_0_4
                          /\ v.issues_detected = {"suspiciously_fast_response"}
                     ELSE IF ms > 30000
                     THEN /\ v.quality_score = slow
                          /\ v.issues_detected = {"slow_response"}
                     ELSE /\ v.quality_score = Float_0_8
                          /\ v.issues_detected = {}

\* C20 (as stated): for an assignment that is not golden set the score is
\* 0.4 with issue suspiciously_fast_response below 500 ms, 0.72 with issue
\* slow_response above 30000 ms and 0.8 without issue in between; never
\* both penalties; confidence medium.
C20_ConsensusScore ==
    [][ConsensusStep(Decimal_0_72)]_vars

\* C20 (amended): the same, the score above 30000 ms being the float
\* product 0.8 * 0.9 = 0.7200000000000001.
C20_ConsensusScoreRounded ==
    [][ConsensusStep(Decimal_0_7200000000000001)]_vars

\* a task that is not golden set was submitted after 30001 ms and scored
\* 0.7200000000000001 with the issue slow_response
C20_Witness ==
    \E h \in TProcs :
        /\ tpc[h] = "vl_store" /\ treq[h].time_spent_ms = 30001
        /\ ~treq[h].task_data.golden_set
        /\ treq[h].validation.validation_method = "consensus"
        /\ treq[h].validation.quality_score = Decimal_0_7200000000000001
        /\ treq[h].validation.issues_detected = {"slow_response"}
        /\ treq[h].validation.confidence = "medium"

\* the reward step function of the claim on a score
StepReward(score) ==
    IF FloatGeq(score, Float_0_9) THEN 7200
    ELSE IF FloatGeq(score, Float_0_8) THEN 5400
    ELSE IF FloatGeq(score, Float_0_7) THEN 3600
    ELSE 1800

\* C21: every submission that found its assignment returns success and a
\* content_access reward; the duration is 7200 s for a score of 1.0,
\* 5400 s for 0.8, 3600 s for 0.7200000000000001 and 1800 s for 0.4, 0.3
\* and 0.2, that is the inclusive step function on the score, and a
\* higher score never gets a shorter reward.
C21_RewardStepFunction ==
    /\ \A h \in TProcs :
          (tpc[h] = "done" /\ treq[h].op = "submit" /\ treq[h].found)
              => /\ treq[h].result.success
                 /\ treq[h].result.reward.type = "content_access"
    /\ \A i \in DOMAIN submitted :
          LET score == submitted[i].validation.quality_score
              duration == submitted[i].result.reward.duration_seconds
          IN /\ submitted[i].result.success
             /\ submitted[i].result.reward.type = "content_access"
             /\ submitted[i].result.quality_score = score
             /\ duration = StepReward(score)
             /\ score = Float_1_0 => duration = 7200
             /\ score = Float_0_8 => duration = 5400
             /\ score = Decimal_0_7200000000000001 => duration = 3600
             /\ score \in {Decimal_0_4, Float_0_3, Float_0_2} => duration = 1800
    /\ \A i, j \in DOMAIN submitted :
          FloatLess(submitted[i].validation.quality_score,
                    submitted[j].validation.quality_score)
              => submitted[i].result.reward.duration_seconds
                    <= submitted[j].result.reward.duration_seconds

\* a golden-set task was answered wrongly and then correctly: both
\* submissions succeeded, with 1800 s and 7200 s
C21_Witness ==
    \E i, j \in DOMAIN submitted :
        /\ submitted[i].task_id = submitted[j].task_id
        /\ submitted[i].validation.issues_detected
               = {"incorrect_golden_set_answer"}
        /\ submitted[i].result.success
        /\ submitted[i].result.reward.duration_seconds = 1800
        /\ submitted[j].validation.quality_score = Float_1_0
        /\ submitted[j].result.reward.duration_seconds = 7200

\* C22: the validation of a submission whose assignment exists writes one
\* key, validation:{id} with an id no stored validation has and a TTL of
\* 24 hours, and leaves every other key of the store as it is.
C22_ValidationWritesOneKey ==
    [][\A h \in TProcs :
          /\ (tpc[h] = "vl_get" /\ tpc'[h] # "vl_get") => kv' = kv
          /\ (tpc[h] = "vl_store" /\ tpc'[h] # "vl_store") =>
                LET key == <<"validation", treq[h].validation.validation_id>>
                IN /\ key \notin DOMAIN kv
                   /\ DOMAIN kv' = DOMAIN kv \cup {key}
                   /\ \A k \in DOMAIN kv : kv'[k] = kv[k]
                   /\ kv'[key].exp = {clock + 86400}
                   /\ kv'[key].val.quality_score
                          = treq[h].validation.quality_score
                   /\ treq'[h].writes = treq[h].writes \cup {key}]_vars

\* a second validation of a task was stored next to the first one, the
\* assignment, the lease and the profile still in the store
C22_Witness ==
    \E h \in TProcs : \E v, w \in 1..nvals :
        /\ tpc[h] = "sb_store" /\ treq[h].op = "submit"
        /\ v # w /\ treq[h].validation.validation_id = w
        /\ <<"validation", v>> \in DOMAIN kv
        /\ <<"validation", w>> \in DOMAIN kv
        /\ kv[<<"validation", v>>].val.task_id = treq[h].task_id
        /\ TaskKey(treq[h].task_id) \in DOMAIN kv
        /\ LeaseKey(treq[h].task_id) \in DOMAIN kv

\* C23: every key of the store has an expiry.
C23_EveryKeyExpires ==
    \A k \in DOMAIN kv : kv[k].exp # NoTTL

\* C24: a task handed out has complexity min(max_complexity, 3) of the
\* profile get_next_task loaded: at most 3 and at most the profile's
\* max_complexity; the stored assignment carries the same level.
C24_ComplexityCapped ==
    \A h \in TProcs :
        (tpc[h] = "done" /\ treq[h].op = "next"
                          /\ treq[h].result.kind = "task") =>
            LET level == treq[h].result.complexity_level
            IN /\ level <= 3
               /\ level <= treq[h].max_complexity
               /\ level = 3 \/ level = treq[h].max_complexity
               /\ treq[h].max_complexity \in {2, 3, 5}
               /\ TaskKey(treq[h].task_id) \in DOMAIN kv =>
                     kv[TaskKey(treq[h].task_id)].val.complexity_level = level

\* an expert, max_complexity 5, was handed a task of complexity 3
C24_Witness ==
    \E h \in TProcs :
        /\ tpc[h] = "done" /\ treq[h].op = "next"
        /\ treq[h].result.kind = "task"
        /\ treq[h].expertise = "expert" /\ treq[h].max_complexity = 5
        /\ treq[h].result.complexity_level = 3

\* the profiles in the store
StoredProfiles == {k \in DOMAIN kv : k[1] = "user:profile"}

\* C25: every stored profile has max_complexity 2 when beginner, 3 when
\* intermediate and 5 when expert.
C25_MaxComplexityFollowsExpertise ==
    \A k \in StoredProfiles :
        LET profile == kv[k].val
        IN /\ profile.expertise_level
                  \in {"beginner", "intermediate", "expert"}
           /\ profile.expertise_level = "beginner"
                  => profile.max_complexity = 2
           /\ profile.expertise_level = "intermediate"
                  => profile.max_complexity = 3
           /\ profile.expertise_level = "expert"
                  => profile.max_complexity = 5

\* two sessions were initialised and updated: one profile is expert with
\* max_complexity 5, the other intermediate with 3
C25_Witness ==
    \E k, l \in StoredProfiles :
        /\ kv[k].val.expertise_level = "expert"
        /\ kv[k].val.max_complexity = 5
        /\ kv[l].val.expertise_level = "intermediate"
        /\ kv[l].val.max_complexity = 3

\* C28: a submission made with a session id other than the one the
\* assignment records writes nothing and gets no reward.
C28_OnlyAssignedSessionCredited ==
    \A h \in TProcs :
        (/\ treq[h].op = "submit" /\ treq[h].found
         /\ treq[h].task_data.session_id # treq[h].session_id)
            => /\ SubmissionKey(treq[h].task_id) \notin treq[h].writes
               /\ CounterKey(treq[h].session_id) \notin treq[h].writes
               /\ tpc[h] = "done" => treq[h].result.reward.type = "none"

\* beginner < intermediate < expert
ExpertiseRank(level) ==
    IF level = "expert" THEN 3 ELSE IF level = "intermediate" THEN 2 ELSE 1

\* C29: the level update_user_profile computes is never below the level
\* of the profile it loaded.
C29_ExpertiseNeverDowngraded ==
    \A h \in TProcs :
        (treq[h].op = "update" /\ treq[h].found) =>
            ExpertiseRank(treq[h].expertise)
                >= ExpertiseRank(treq[h].profile.expertise_level)

\* the task ids of a batch
BatchTaskIds(tasks) == {tasks[i].task_id : i \in DOMAIN tasks}

\* C26: get_task_batch returns at most count tasks, none marked golden
\* set, writes the one key batch:{batch_id} with a TTL and nothing else:
\* no assignment and no lease for a returned task, no counter, no profile.
C26_BatchWritesOneRecord ==
    [][\A h \in TProcs :
          (tpc[h] = "idle" /\ treq'[h].op = "batch") =>
              LET res == treq'[h].result
                  key == <<"batch", res.batch_id>>
              IN /\ tpc'[h] = "done"
                 /\ Len(res.tasks) <= treq'[h].count
                 /\ Len(res.tasks) >= 1
                 /\ \A i \in DOMAIN res.tasks :
                       /\ "golden_set" \notin DOMAIN res.tasks[i]
                       /\ "expected_answer" \notin DOMAIN res.tasks[i]
                 /\ DOMAIN kv' = DOMAIN kv \cup {key}
                 /\ \A k \in DOMAIN kv \ {key} : kv'[k] = kv[k]
                 /\ kv'[key].exp = {clock + 3600}
                 /\ kv'[key].val.tasks = res.tasks
                 /\ \A tid \in BatchTaskIds(res.tasks) :
                       /\ TaskKey(tid) \notin DOMAIN kv'
                       /\ LeaseKey(tid) \notin DOMAIN kv'
                 /\ incs' = incs]_vars

\* a batch of two tasks was fetched while a session held a task: the
\* profile, the counter, the assignment and the lease are in the store
C26_Witness ==
    \E h \in TProcs : \E i \in DOMAIN handed :
        /\ tpc[h] = "done" /\ treq[h].op = "batch"
        /\ Len(treq[h].result.tasks) = 2
        /\ BatchKey(treq[h].result.batch_id) \in DOMAIN kv
        /\ TaskKey(handed[i].task_id) \in DOMAIN kv
        /\ LeaseKey(handed[i].task_id) \in DOMAIN kv
        /\ CounterValue(kv, handed[i].session_id) = {0}

\* C30: two batch calls get distinct batch ids, and the record of each
\* holds the tasks that call returned.
C30_BatchIdsDistinct ==
    \A g, h \in TProcs :
        (/\ g # h
         /\ tpc[g] = "done" /\ treq[g].op = "batch"
         /\ tpc[h] = "done" /\ treq[h].op = "batch")
            => /\ treq[g].result.batch_id # treq[h].result.batch_id
               /\ BatchKey(treq[g].result.batch_id) \in DOMAIN kv =>
                     kv[BatchKey(treq[g].result.batch_id)].val.tasks
                        = treq[g].result.tasks

\* the rate-limit windows other than that of key
OtherWindows(store, key) == [k \in DOMAIN store \ {key} |-> store[k]]

SpecRate == RateInit /\ [][RateNext]_vars

SpecFail == RateInit /\ [][FailNext]_vars

SpecKey == RateInit /\ [][KeyNext]_vars

SpecTask == TaskInit /\ [][TaskNext]_vars

SpecScore == TaskInit /\ [][ScoreNext]_vars

SpecBatch == TaskInit /\ [][BatchNext]_vars

SpecGate == RateInit /\ [][GateNext]_vars

====
